---------------------------- MODULE Spec2Model ----------------------------
(***************************************************************************)
(* RangeFilterCppWrapper (src/apps/range_filter_cpp_wrapper.h): the        *)
(* construction of the bucket tree over a filter-sorted corpus and the      *)
(* query optimized_postfiltering_search.                                    *)
(* The drivers' main (src/apps/build_wrapper.cpp, search_wrapper.cpp,       *)
(* index_construction_and_query_execution.cpp) and their monitor thread     *)
(* (monitor_thread_count, src/apps/fanns_survey_helpers.cpp) are followed   *)
(* in SpecDriver.                                                           *)
(*                                                                          *)
(* Arrays keep the code's 0-based indices: an array of length n is a        *)
(* function with domain 0 .. n-1.                                           *)
(***************************************************************************)
EXTENDS Integers, Sequences, FiniteSets, TLC

\* ------------------------------------------------------------------ bounds
MaxN == 3          \* corpus sizes 1 .. MaxN are built
MaxQueryN == 2     \* corpora of up to MaxQueryN points are also queried
MaxFilter == 2     \* filter values and range ends are 0 .. MaxFilter
MaxCutoff == 1
MaxSplit == 2
MaxLevels == 3     \* the level loop is followed for up to MaxLevels levels
MaxK == 2
MaxBeam == 2

\* the dimensions d and the coordinates of a query vector
Dims == {1, 2}
Coords == {0, 1}

\* size_t arithmetic wraps; the model keeps a 16-bit word (every value of the
\* model is far below it), so that a wrapped operand is still a wrapped operand.
SizeModulus == 2 ^ 16

Wrap(x) == x % SizeModulus

Min(a, b) == IF a < b THEN a ELSE b

VARIABLES
    pc,                \* "start", "building", "built", "queried"
    n, d, data, filters, cutoff, split_factor,   \* the constructor's arguments
    sorted_index_to_original_point_id,           \* decoding, length n
    filter_values,                               \* sorted filter values
    points,                                      \* data_sorted, n * d scalars
    bucket_offsets,                              \* level -> array of offsets
    spatial_indices,                             \* level -> array of [start, end]
    tasks_run,                                   \* the tasks of the last level loop iteration
    query, range, qp,                            \* the last query's arguments
    start, end,                                  \* its index range
    level, start_bucket, end_bucket,             \* its chosen span
    searched,                                    \* {<<level, bucket>>} beam-searched
    results,                                     \* per-bucket beam_search output
    merged,                                      \* flattened and sorted
    final_results,                               \* the value returned
    driver,            \* the program whose main runs (src/apps/*.cpp)
    step,              \* main's position in the program
    outcome,           \* "running", "returning", then how the process ended
    exit_code,         \* the value main returns
    monitor_pc,        \* the monitor_thread_count thread's position
    done,              \* the std::atomic<bool> of the running monitor
    peak_threads       \* the std::atomic<int> peak_threads

indexVars == <<pc, n, d, data, filters, cutoff, split_factor,
          sorted_index_to_original_point_id, filter_values, points,
          bucket_offsets, spatial_indices, tasks_run, query, range, qp, start, end,
          level, start_bucket, end_bucket, searched, results, merged,
          final_results>>

driverVars == <<driver, step, outcome, exit_code, monitor_pc, done, peak_threads>>

vars == <<indexVars, driverVars>>

buildArgs == <<n, d, data, filters, cutoff, split_factor>>
sortVars == <<sorted_index_to_original_point_id, filter_values, points>>
treeVars == <<bucket_offsets, spatial_indices, tasks_run>>
queryVars == <<query, range, qp, start, end, level, start_bucket, end_bucket,
               searched, results, merged, final_results>>

\* ---------------------------------------------------------- construction
\* parlay::sort_inplace with the comparator filter[i] < filter[j] is not a
\* stable sort: the outcomes are the permutations p of 0 .. len-1 in which no
\* element is followed by one the comparator puts before it.  Built position
\* by position: the arrays over positions 0 .. k-1.
RECURSIVE SortedPrefixes(_, _, _)
SortedPrefixes(f, len, k) ==
    IF k = 0 THEN { [x \in {} |-> 0] }
    ELSE { [x \in 0 .. k - 1 |-> IF x = k - 1 THEN v ELSE p[x]] :
            <<p, v>> \in { pv \in SortedPrefixes(f, len, k - 1) \X (0 .. len - 1) :
                            /\ \A x \in 0 .. k - 2 : pv[1][x] # pv[2]
                            /\ k > 1 => ~(f[pv[2]] < f[pv[1][k - 2]]) } }

SortedPermutations(f, len) == SortedPrefixes(f, len, len)

\* mutant of Decoding: decoding[sorted_id] = sorted_id
DecodingUnpermuted(filter_indices_sorted, len) ==
    [sorted_id \in 0 .. len - 1 |-> sorted_id]

\* decoding[sorted_id] = original_id
Decoding(filter_indices_sorted, len) ==
    [sorted_id \in 0 .. len - 1 |-> filter_indices_sorted[sorted_id]]

\* data_sorted[sorted_id * d + dim] = data[original_id * d + dim]
DataSorted(dat, filter_indices_sorted, len, dd) ==
    [x \in 0 .. len * dd - 1 |->
        dat[filter_indices_sorted[x \div dd] * dd + (x % dd)]]

\* sorted_filter_values[sorted_id] = filter_values_seq[filter_indices_sorted[sorted_id]]
SortedFilterValues(f, filter_indices_sorted, len) ==
    [sorted_id \in 0 .. len - 1 |-> f[filter_indices_sorted[sorted_id]]]

\* create_index(filter_values, start, end, ...): the index over the sorted ids
\* start .. end-1 (subset_of_indices = i + start for i < end - start)
create_index(s, e) == [start |-> s, end |-> e]

IndexIds(ix) == { ix.start + i : i \in 0 .. Wrap(ix.end - ix.start) - 1 }

\* a std::unique_ptr no task has assigned
NullIndex == [start |-> -1, end |-> -1]

\* _bucket_offsets.size(); the two vectors grow together
NumLevels == Len(bucket_offsets)

\* the offsets and indices are sequences of levels: level l of the code is
\* element l + 1, and each level is a 0-based array
Off(l) == bucket_offsets[l + 1]
NumBuckets(l) == Cardinality(DOMAIN spatial_indices[l + 1])
Idx(l, b) == spatial_indices[l + 1][b]

\* ---- one iteration of the level loop, lines 74-106 (sf is _split_factor)
\* last_size = last_end - last_start of parent last_bucket_id of the deepest level
LastStart(last_bucket_id) == Off(NumLevels - 1)[last_bucket_id]
LastSize(last_bucket_id) ==
    Wrap(Off(NumLevels - 1)[last_bucket_id + 1] - Off(NumLevels - 1)[last_bucket_id])

\* mutant of large_bucket_size: the division rounds down
large_bucket_size_floor(last_size, sf) == last_size \div sf

large_bucket_size(last_size, sf) == Wrap(last_size + sf - 1) \div sf
small_bucket_size(last_size, sf) == Wrap(large_bucket_size(last_size, sf) - 1)
\* mutant of num_larger_buckets: the remainder of the division
num_larger_buckets_remainder(last_size, sf) ==
    last_size % sf

num_larger_buckets(last_size, sf) ==
    Wrap(last_size - small_bucket_size(last_size, sf) * sf)

\* `start` of child i of a parent: the first loop (i < num_larger_buckets)
\* or the second
ChildStart(last_start, last_size, sf, i) ==
    LET large == large_bucket_size(last_size, sf)
        small == small_bucket_size(last_size, sf)
        larger == num_larger_buckets(last_size, sf)
    IN  IF i < larger
        THEN Wrap(last_start + i * large)
        ELSE Wrap(last_start + larger * large + Wrap(i - larger) * small)

\* mutant of ChildEnd: the second loop also ends its child at
\* start + large_bucket_size
ChildEndAlwaysLarge(last_start, last_size, sf, i) ==
    Wrap(ChildStart(last_start, last_size, sf, i)
         + large_bucket_size(last_size, sf))

\* `end` of child i: start + large_bucket_size or start + small_bucket_size
ChildEnd(last_start, last_size, sf, i) ==
    LET large == large_bucket_size(last_size, sf)
        small == small_bucket_size(last_size, sf)
        larger == num_larger_buckets(last_size, sf)
    IN  IF i < larger
        THEN Wrap(ChildStart(last_start, last_size, sf, i) + large)
        ELSE Wrap(ChildStart(last_start, last_size, sf, i) + small)

\* the loop indices the two inner parallel_for run for one parent:
\* 0 .. num_larger_buckets - 1 and num_larger_buckets .. _split_factor - 1
TaskIds(last_size, sf) ==
    LET larger == num_larger_buckets(last_size, sf)
    IN  (0 .. larger - 1) \cup (larger .. sf - 1)

\* the tasks of the nested parallel loops: task i of parent last_bucket_id
\* writes slot last_bucket_id * _split_factor + i of the two new arrays
LevelTasks ==
    UNION { { [parent |-> last_bucket_id, i |-> i,
               slot |-> last_bucket_id * split_factor + i,
               start |-> ChildStart(LastStart(last_bucket_id),
                                    LastSize(last_bucket_id), split_factor, i),
               end |-> ChildEnd(LastStart(last_bucket_id),
                                LastSize(last_bucket_id), split_factor, i)] :
                i \in TaskIds(LastSize(last_bucket_id), split_factor) } :
            last_bucket_id \in 0 .. NumBuckets(NumLevels - 1) - 1 }

\* the arrays a of length len with a[j] \in outs[j] for every j
RECURSIVE ArraysOf(_, _)
ArraysOf(outs, len) ==
    IF len = 0 THEN { [x \in {} |-> 0] }
    ELSE { [x \in 0 .. len - 1 |-> IF x = len - 1 THEN v ELSE a[x]] :
            a \in ArraysOf(outs, len - 1), v \in outs[len - 1] }

\* what slot j of the new offset array can hold after the join: the value of
\* a task that wrote it, else what line 76-77 left there
OffsetOutcomes(j, slots) ==
    LET writes == { t.start : t \in { u \in LevelTasks : u.slot = j } }
    IN  IF writes # {} THEN writes
        ELSE IF j = slots THEN {n} ELSE {0}

IndexOutcomes(j) ==
    LET writes == { create_index(t.start, t.end) :
                        t \in { u \in LevelTasks : u.slot = j } }
    IN  IF writes # {} THEN writes ELSE {NullIndex}

\* the input vectors: scalar x of the input array holds x, so every place of
\* the permuted copy tells which input scalar it was taken from
LabelledData(len, dd) == [x \in 0 .. len * dd - 1 |-> x]

\* the query's locals before any query has run
NoQuery ==
    /\ query = << >>
    /\ range = <<0, 0>>
    /\ qp = [k |-> 0, beamSize |-> MaxBeam]
    /\ start = 0
    /\ end = 0
    /\ level = 0
    /\ start_bucket = 0
    /\ end_bucket = 0
    /\ searched = {}
    /\ results = << >>
    /\ merged = << >>
    /\ final_results = << >>

\* no driver's main is followed: the index is built and queried on its own
DriverAtIndex ==
    /\ driver = "none"
    /\ step = 0
    /\ outcome = "running"
    /\ exit_code = 0
    /\ monitor_pc = "none"
    /\ done = FALSE
    /\ peak_threads = 1

Init ==
    /\ DriverAtIndex
    /\ pc = "start"
    /\ n \in 1 .. MaxN
    /\ d \in Dims
    /\ filters \in [0 .. n - 1 -> 0 .. MaxFilter]
    /\ data = LabelledData(n, d)
    /\ cutoff \in 1 .. MaxCutoff
    /\ split_factor \in 1 .. MaxSplit
    /\ sorted_index_to_original_point_id = << >>
    /\ filter_values = << >>
    /\ points = << >>
    /\ bucket_offsets = << >>
    /\ spatial_indices = << >>
    /\ tasks_run = {}
    /\ NoQuery

\* lines 34-72: sort by filter value, permute the vectors, build the root
Construct ==
    /\ pc = "start"
    /\ \E filter_indices_sorted \in SortedPermutations(filters, n) :
        /\ sorted_index_to_original_point_id' = Decoding(filter_indices_sorted, n)
        /\ points' = DataSorted(data, filter_indices_sorted, n, d)
        /\ filter_values' = SortedFilterValues(filters, filter_indices_sorted, n)
    /\ spatial_indices' = << [b \in 0 .. 0 |-> create_index(0, n)] >>
    /\ bucket_offsets' = << [b \in 0 .. 1 |-> IF b = 0 THEN 0 ELSE n] >>
    /\ tasks_run' = {}
    /\ pc' = "building"
    /\ UNCHANGED <<buildArgs, queryVars, driverVars>>

\* mutant of LoopCondition: >= in place of >
LoopConditionInclusive == Off(NumLevels - 1)[1] >= Wrap(cutoff)

\* line 74: _bucket_offsets.back().at(1) > cutoff, cutoff converted to size_t
LoopCondition == Off(NumLevels - 1)[1] > Wrap(cutoff)

\* lines 75-105: one more level, every bucket of the deepest level split
AddLevel ==
    /\ pc = "building"
    /\ LoopCondition
    /\ NumLevels < MaxLevels
    /\ LET slots == NumBuckets(NumLevels - 1) * split_factor
           offOuts == [j \in 0 .. slots |-> OffsetOutcomes(j, slots)]
           idxOuts == [j \in 0 .. slots - 1 |-> IndexOutcomes(j)]
       IN  /\ \E offs \in ArraysOf(offOuts, slots + 1) :
                bucket_offsets' = Append(bucket_offsets, offs)
           /\ \E idxs \in ArraysOf(idxOuts, slots) :
                spatial_indices' = Append(spatial_indices, idxs)
    /\ tasks_run' = LevelTasks
    /\ UNCHANGED <<pc, buildArgs, sortVars, queryVars, driverVars>>

\* line 74 false: the constructor returns
FinishBuild ==
    /\ pc = "building"
    /\ ~LoopCondition
    /\ pc' = "built"
    /\ UNCHANGED <<buildArgs, sortVars, treeVars, queryVars, driverVars>>

\* ------------------------------------------------------------------ query
\* mutant of check_empty: the test against the largest filter value is lost
check_empty_lower_only(r) ==
    r[2] < filter_values[0]

\* check_empty, lines 148-150; r = <<lo, hi>>
check_empty(r) ==
    r[2] < filter_values[0] \/ r[1] > filter_values[n - 1]

\* the loop of first_greater_than_or_equal_to, lines 158-166
RECURSIVE Bisect(_, _, _, _)
Bisect(fv, filter_value, s, e) ==
    IF s + 1 < e
    THEN LET mid == (s + e) \div 2
         IN  IF fv[mid] >= filter_value
             THEN Bisect(fv, filter_value, s, mid)
             ELSE Bisect(fv, filter_value, mid, e)
    ELSE e

\* first_greater_than_or_equal_to, lines 152-167
first_greater_than_or_equal_to(filter_value, fv, size) ==
    IF fv[0] >= filter_value THEN 0 ELSE Bisect(fv, filter_value, 0, size)

\* lines 117-121: end, moved past filter_values[end] when that equals hi
RangeEnd(hi, fv, size) ==
    LET e == first_greater_than_or_equal_to(hi, fv, size)
    IN  IF e < size /\ fv[e] = hi THEN e + 1 ELSE e

\* the inner loop over the buckets of level l, lines 179-187, from bucket b
\* on: <<s_bucket, e_bucket>>
RECURSIVE ScanBuckets(_, _, _, _, _)
ScanBuckets(l, b, s_bucket, s, e) ==
    LET num_buckets == Cardinality(DOMAIN Off(l)) - 1
    IN  IF b >= num_buckets THEN <<s_bucket, num_buckets>>
        ELSE LET s2 == IF Off(l)[b] <= s /\ s < Off(l)[b + 1]
                       THEN b ELSE s_bucket
             IN  IF Off(l)[b] < e /\ e <= Off(l)[b + 1]
                 THEN <<s2, b + 1>>
                 ELSE ScanBuckets(l, b + 1, s2, s, e)

\* mutant of StopsAt: the walk stops at the level whose span is several buckets
StopsAtStraddle(span) == Wrap(span.end_bucket - span.start_bucket) > 1

\* line 193: the walk stops at the level whose span is one bucket
StopsAt(span) == Wrap(span.end_bucket - span.start_bucket) = 1

\* the outer loop over the levels, lines 175-196, from level l on; cur is
\* (level, start_bucket, end_bucket) so far
RECURSIVE WalkLevels(_, _, _, _)
WalkLevels(l, cur, s, e) ==
    IF l >= NumLevels THEN cur
    ELSE LET sc == ScanBuckets(l, 0, 0, s, e)
             new == [level |-> l, start_bucket |-> sc[1], end_bucket |-> sc[2]]
         IN  IF StopsAt(new) THEN new ELSE WalkLevels(l + 1, new, s, e)

\* lines 171-173 then the walk
ChooseSpan(s, e) ==
    WalkLevels(0, [level |-> 0, start_bucket |-> 0, end_bucket |-> 1], s, e)

\* squared Euclidean distance of q to the vector at sorted id, over dims < dd
RECURSIVE Dist(_, _, _)
Dist(q, sorted_id, dd) ==
    IF dd = 0 THEN 0
    ELSE LET diff == q[dd - 1] - points[sorted_id * d + dd - 1]
         IN  Dist(q, sorted_id, dd - 1) + diff * diff

\* mutant of SortedByDistance: the comparator is a.second > b.second
SortedByDistanceDescending(seq) ==
    \A i, j \in 1 .. Len(seq) : i < j => ~(seq[j][2] > seq[i][2])

\* a pid is <<first, second>>
\* the comparator of line 207 leaves seq in place: no later element is
\* strictly nearer than an earlier one
SortedByDistance(seq) ==
    \A i, j \in 1 .. Len(seq) : i < j => ~(seq[j][2] < seq[i][2])

Injective(seq) == \A i, j \in 1 .. Len(seq) : i # j => seq[i] # seq[j]

\* the order of a beam_search result: ascending distance
NearestFirst(seq) ==
    \A i \in 1 .. Len(seq) - 1 : seq[i][2] <= seq[i + 1][2]

\* beam_search of the index ix: up to beamSize candidates <<local_id, dist>>
\* of the index's own points, nearest first
BeamOutputs(ix, q, beamSize) ==
    LET size == Wrap(ix.end - ix.start)
        cand(local_id) == <<local_id, Dist(q, ix.start + local_id, d)>>
        picks == UNION { [1 .. m -> 0 .. size - 1] : m \in 0 .. Min(beamSize, size) }
    IN  { out \in { [i \in 1 .. Len(ids) |-> cand(ids[i])] :
                        ids \in { x \in picks : Injective(x) } } :
            NearestFirst(out) }

\* parlay::flatten of the per-bucket results (a sequence of sequences)
RECURSIVE flatten(_)
flatten(rs) == IF rs = << >> THEN << >> ELSE Head(rs) \o flatten(Tail(rs))

\* parlay::sort_inplace by distance (not stable): every arrangement of seq
\* the comparator accepts as sorted
SortOutcomes(seq) ==
    LET m == Len(seq)
    IN  { out \in { [i \in 1 .. m |-> seq[p[i]]] :
                        p \in { x \in [1 .. m -> 1 .. m] : Injective(x) } } :
            SortedByDistance(out) }

\* lines 210-211: std::min(static_cast<size_t>(k), merged.size()) entries
FirstK(seq, k) == SubSeq(seq, 1, Min(Wrap(k), Len(seq)))

\* mutant of MapToOriginal: the ids are returned as beam_search gave them
MapToOriginalUndecoded(seq) ==
    seq

\* lines 214-216: p.first = _sorted_index_to_original_point_id[p.first]
MapToOriginal(seq) ==
    [i \in 1 .. Len(seq) |->
        <<sorted_index_to_original_point_id[seq[i][1]], seq[i][2]>>]

\* the per-bucket results of the span, lines 199-203: one beam_search output
\* per bucket start_bucket .. end_bucket - 1
RECURSIVE SpanResults(_, _, _, _, _)
SpanResults(l, b, e_bucket, q, beamSize) ==
    IF b >= e_bucket THEN { << >> }
    ELSE { <<r>> \o rest : r \in BeamOutputs(Idx(l, b), q, beamSize),
                           rest \in SpanResults(l, b + 1, e_bucket, q, beamSize) }

\* optimized_postfiltering_search, lines 110-124, with
\* optimized_postfilter_search_in_range, lines 169-219
Search(q, r, params) ==
    /\ pc = "built"
    /\ pc' = "queried"
    /\ query' = q
    /\ range' = r
    /\ qp' = params
    /\ IF check_empty(r)
       THEN /\ final_results' = << >>
            /\ searched' = {}
            /\ results' = << >>
            /\ merged' = << >>
            /\ start' = 0
            /\ end' = 0
            /\ level' = 0
            /\ start_bucket' = 0
            /\ end_bucket' = 0
       ELSE LET s == first_greater_than_or_equal_to(r[1], filter_values, n)
                e == RangeEnd(r[2], filter_values, n)
                span == ChooseSpan(s, e)
            IN  /\ start' = s
                /\ end' = e
                /\ level' = span.level
                /\ start_bucket' = span.start_bucket
                /\ end_bucket' = span.end_bucket
                /\ searched' = { <<span.level, b>> :
                                    b \in span.start_bucket .. span.end_bucket - 1 }
                /\ \E rs \in SpanResults(span.level, span.start_bucket,
                                          span.end_bucket, q, params.beamSize) :
                     /\ results' = rs
                     /\ \E sorted \in SortOutcomes(flatten(rs)) :
                          /\ merged' = sorted
                          /\ final_results' = MapToOriginal(FirstK(sorted, params.k))
    /\ UNCHANGED <<buildArgs, sortVars, treeVars, driverVars>>

\* a query: the vector (c, .., c), a well-formed interval lo <= hi and k;
\* beamSize is MaxBeam (beam_search may return fewer)
Query ==
    /\ n <= MaxQueryN
    /\ \E c \in Coords, lo, hi \in 0 .. MaxFilter, k \in 0 .. MaxK :
        /\ lo <= hi
        /\ Search([dim \in 0 .. d - 1 |-> c], <<lo, hi>>,
                  [k |-> k, beamSize |-> MaxBeam])

\* the caller has consumed the result (search_wrapper.cpp, lines 113-120):
\* the index is unchanged and ready for the next query
Return ==
    /\ pc = "queried"
    /\ pc' = "built"
    /\ query' = << >>
    /\ range' = <<0, 0>>
    /\ qp' = [k |-> 0, beamSize |-> MaxBeam]
    /\ start' = 0
    /\ end' = 0
    /\ level' = 0
    /\ start_bucket' = 0
    /\ end_bucket' = 0
    /\ searched' = {}
    /\ results' = << >>
    /\ merged' = << >>
    /\ final_results' = << >>
    /\ UNCHANGED <<buildArgs, sortVars, treeVars, driverVars>>

Next ==
    \/ Construct
    \/ AddLevel
    \/ FinishBuild
    \/ Query
    \/ Return

Spec == Init /\ [][Next]_vars

\* ---- the constructor alone, on larger corpora: N up to MaxLayoutN points
\* with pairwise different filter values, any int cutoff from 0 on
MaxLayoutN == 8
MaxLayoutCutoff == 2

InitLayout ==
    /\ DriverAtIndex
    /\ pc = "start"
    /\ n \in 1 .. MaxLayoutN
    /\ d \in Dims
    /\ filters = [i \in 0 .. n - 1 |-> i]
    /\ data = LabelledData(n, d)
    /\ cutoff \in 0 .. MaxLayoutCutoff
    /\ split_factor \in 1 .. MaxSplit
    /\ sorted_index_to_original_point_id = << >>
    /\ filter_values = << >>
    /\ points = << >>
    /\ bucket_offsets = << >>
    /\ spatial_indices = << >>
    /\ tasks_run = {}
    /\ NoQuery

NextLayout ==
    \/ Construct
    \/ AddLevel
    \/ FinishBuild

SpecLayout == InitLayout /\ [][NextLayout]_vars

\* ------------------------------------------------------------ the drivers
\* the thread counts /proc/self/status reports are 1 .. MaxThreads
MaxThreads == 2

\* main of each driver as the sequence of its steps that matter to the
\* monitor thread; `at` is the line of the step.
\*   thread   std::thread monitor(monitor_thread_count, std::ref(done))
\*   read     a reader of fanns_survey_helpers.cpp that throws on a bad file
\*   check    a test whose failure is `return 1`
\*   work     building the index, running the queries
\*   set_done done = true
\*   join     monitor.join()
\*   return   return 0
St(op, at) == [op |-> op, at |-> at]

build_wrapper ==
    << St("thread", 44), St("read", 49), St("check", 51), St("work", 65),
       St("set_done", 72), St("join", 73), St("return", 87) >>

search_wrapper ==
    << St("thread", 45), St("read", 57), St("work", 59), St("check", 64),
       St("check", 71), St("read", 80), St("check", 82), St("check", 89),
       St("work", 113), St("set_done", 128), St("join", 129),
       St("return", 156) >>

index_construction_and_query_execution ==
    << St("check", 99), St("read", 110), St("check", 112), St("check", 120),
       St("check", 127), St("read", 138), St("check", 139), St("check", 147),
       St("thread", 165), St("work", 170), St("set_done", 175),
       St("join", 176), St("thread", 190), St("work", 214),
       St("set_done", 247), St("join", 248), St("return", 264) >>

Drivers == {"build_wrapper", "search_wrapper",
            "index_construction_and_query_execution"}

Program(name) ==
    CASE name = "build_wrapper" -> build_wrapper
      [] name = "search_wrapper" -> search_wrapper
      [] name = "index_construction_and_query_execution" ->
            index_construction_and_query_execution

\* the step main is at
Op == IF driver \in Drivers /\ outcome = "running"
      THEN Program(driver)[step].op ELSE "none"

\* a std::thread that has been started and not joined
Joinable == monitor_pc \in {"test", "sample", "sleep", "exited"}

\* the index of the driver, not followed here
IndexAside ==
    /\ pc = "start"
    /\ n = 1
    /\ d = 1
    /\ filters = [i \in 0 .. 0 |-> 0]
    /\ data = LabelledData(1, 1)
    /\ cutoff = 1
    /\ split_factor = 2
    /\ sorted_index_to_original_point_id = << >>
    /\ filter_values = << >>
    /\ points = << >>
    /\ bucket_offsets = << >>
    /\ spatial_indices = << >>
    /\ tasks_run = {}
    /\ NoQuery

InitDriver ==
    /\ IndexAside
    /\ driver \in Drivers
    /\ step = 1
    /\ outcome = "running"
    /\ exit_code = 0
    /\ monitor_pc = "none"
    /\ done = FALSE
    /\ peak_threads = 1

\* std::atomic<bool> done(false); std::thread monitor(...); the combined
\* driver resets peak_threads before its second thread (line 189)
StartMonitor ==
    /\ Op = "thread"
    /\ done' = FALSE
    /\ monitor_pc' = "test"
    /\ peak_threads' = IF Program(driver)[step].at = 190 THEN 1 ELSE peak_threads
    /\ step' = step + 1
    /\ UNCHANGED <<indexVars, driver, outcome, exit_code>>

\* a reader returns its values
ReadFile ==
    /\ Op = "read"
    /\ step' = step + 1
    /\ UNCHANGED <<indexVars, driver, outcome, exit_code, monitor_pc, done,
                   peak_threads>>

\* a reader throws std::runtime_error, which no driver catches
ReaderThrows ==
    /\ Op = "read"
    /\ outcome' = "uncaught_exception"
    /\ UNCHANGED <<indexVars, driver, step, exit_code, monitor_pc, done,
                   peak_threads>>

CheckPasses ==
    /\ Op = "check"
    /\ step' = step + 1
    /\ UNCHANGED <<indexVars, driver, outcome, exit_code, monitor_pc, done,
                   peak_threads>>

\* the error message and `return 1`
CheckFails ==
    /\ Op = "check"
    /\ outcome' = "returning"
    /\ exit_code' = 1
    /\ UNCHANGED <<indexVars, driver, step, monitor_pc, done, peak_threads>>

Work ==
    /\ Op = "work"
    /\ step' = step + 1
    /\ UNCHANGED <<indexVars, driver, outcome, exit_code, monitor_pc, done,
                   peak_threads>>

SetDone ==
    /\ Op = "set_done"
    /\ done' = TRUE
    /\ step' = step + 1
    /\ UNCHANGED <<indexVars, driver, outcome, exit_code, monitor_pc,
                   peak_threads>>

\* monitor.join() blocks until the thread function has returned
Join ==
    /\ Op = "join"
    /\ monitor_pc = "exited"
    /\ monitor_pc' = "joined"
    /\ step' = step + 1
    /\ UNCHANGED <<indexVars, driver, outcome, exit_code, done, peak_threads>>

ReturnZero ==
    /\ Op = "return"
    /\ outcome' = "returning"
    /\ exit_code' = 0
    /\ UNCHANGED <<indexVars, driver, step, monitor_pc, done, peak_threads>>

\* main's locals are destroyed: ~thread() of a joinable thread calls
\* std::terminate
LeaveMain ==
    /\ outcome = "returning"
    /\ outcome' = IF Joinable THEN "joinable_destroyed" ELSE "exited"
    /\ UNCHANGED <<indexVars, driver, step, exit_code, monitor_pc, done,
                   peak_threads>>

\* monitor_thread_count, fanns_survey_helpers.cpp lines 99-116
Alive == outcome \in {"running", "returning"}

\* line 101: while (!done)
MonitorTest ==
    /\ Alive
    /\ monitor_pc = "test"
    /\ monitor_pc' = IF done THEN "exited" ELSE "sample"
    /\ UNCHANGED <<indexVars, driver, step, outcome, exit_code, done,
                   peak_threads>>

\* lines 102-113: read Threads: and raise peak_threads to it
MonitorSample ==
    /\ Alive
    /\ monitor_pc = "sample"
    /\ \E current_threads \in 1 .. MaxThreads :
        peak_threads' = IF current_threads > peak_threads
                        THEN current_threads ELSE peak_threads
    /\ monitor_pc' = "sleep"
    /\ UNCHANGED <<indexVars, driver, step, outcome, exit_code, done>>

\* line 114: sleep_for(10ms)
MonitorSleep ==
    /\ Alive
    /\ monitor_pc = "sleep"
    /\ monitor_pc' = "test"
    /\ UNCHANGED <<indexVars, driver, step, outcome, exit_code, done,
                   peak_threads>>

NextDriver ==
    \/ StartMonitor
    \/ ReadFile
    \/ ReaderThrows
    \/ CheckPasses
    \/ CheckFails
    \/ Work
    \/ SetDone
    \/ Join
    \/ ReturnZero
    \/ LeaveMain
    \/ MonitorTest
    \/ MonitorSample
    \/ MonitorSleep

SpecDriver == InitDriver /\ [][NextDriver]_vars

\* ================================================================ claims
Queried == pc = "queried"

\* the query passed the empty check and went on to the search
Searched == Queried /\ ~check_empty(range)

\* sorted id i has its filter value in the closed interval of the query
InRange(i) == range[1] <= filter_values[i] /\ filter_values[i] <= range[2]

Matching == { i \in 0 .. n - 1 : InRange(i) }

\* the sorted id an original id was decoded from
InverseDecoding(original_id) ==
    CHOOSE i \in 0 .. n - 1 : sorted_index_to_original_point_id[i] = original_id

\* bucket b of level l covers the index range [s, e)
Covers(l, b, s, e) == Off(l)[b] <= s /\ e <= Off(l)[b + 1]

Buckets(l) == 0 .. Cardinality(DOMAIN Off(l)) - 2

\* the sorted ids of the candidates the beam searches of the query returned:
\* candidate i of the j-th searched bucket
CandidateIds ==
    { <<j, i, Off(level)[start_bucket + j - 1] + results[j][i][1]>> :
        <<j, i>> \in UNION { {j} \X (1 .. Len(results[j])) : j \in 1 .. Len(results) } }

\* C1: every pair returned by a query refers to a corpus point whose filter
\* value lies in the closed interval [lo, hi] of the query.
C1_FilterSoundness ==
    Queried =>
        \A i \in 1 .. Len(final_results) :
            InRange(InverseDecoding(final_results[i][1]))

\* C2: a query whose interval contains no filter value of the corpus returns
\* the empty sequence.
C2_EmptyRangeIsEmpty ==
    (Queried /\ Matching = {}) => final_results = << >>

\* C3: a query whose interval lies below filter[0] or above filter[N-1]
\* returns the empty sequence and runs no beam search.
C3_OutOfBounds ==
    (Queried /\ (range[2] < filter_values[0] \/ range[1] > filter_values[n - 1]))
        => (final_results = << >> /\ searched = {} /\ results = << >>)

\* the interval lies above every filter value and some results were asked for
C3_Witness ==
    Queried /\ range[1] > filter_values[n - 1] /\ qp.k > 0 /\ n > 1

\* C4: for a query that passes the empty check, [start, end) is exactly the
\* set of sorted ids whose filter value lies in [lo, hi].
C4_IndexRangeExact ==
    Searched => (start .. end - 1) = Matching

\* C5: for an index range [s, e) with s < e, beam_search runs on one bucket
\* only: the bucket covering [s, e) at the deepest level that has one.
C5_DeepestSingleBucket ==
    (Searched /\ start < end) =>
        \E l \in 0 .. NumLevels - 1 : \E b \in Buckets(l) :
            /\ Covers(l, b, start, end)
            /\ \A l2 \in l + 1 .. NumLevels - 1 :
                    \A b2 \in Buckets(l2) : ~Covers(l2, b2, start, end)
            /\ searched = { <<l, b>> }

\* C6: when no single bucket below the root covers [s, e), beam_search runs
\* on exactly the buckets b_s .. b_e - 1 of the deepest level, b_s holding s
\* and b_e - 1 holding e - 1.
C6_StraddlingSpan ==
    (/\ Searched
     /\ start < end
     /\ \A l \in 1 .. NumLevels - 1 :
            \A b \in Buckets(l) : ~Covers(l, b, start, end))
        => \E b_s, b_l \in Buckets(NumLevels - 1) :
            /\ Covers(NumLevels - 1, b_s, start, start + 1)
            /\ Covers(NumLevels - 1, b_l, end - 1, end)
            /\ searched = { <<NumLevels - 1, b>> : b \in b_s .. b_l }

\* C7: the result has min(k, c) entries, c the number of beam-search
\* candidates whose sorted id lies in [start, end).
C7_ResultLength ==
    Queried =>
        Len(final_results) =
            Min(qp.k, Cardinality({ c \in CandidateIds :
                                        start <= c[3] /\ c[3] < end }))

\* C8: the result is in non-decreasing order of distance and holds the
\* min(k, m) nearest of the m candidates the beam searches returned: each
\* entry is a candidate of its own, decoded, and no candidate left out is
\* strictly nearer than an entry.
C8_ResultOrder ==
    Queried =>
        LET cands == flatten(results)
            m == Len(cands)
            len == Len(final_results)
        IN  /\ len = Min(qp.k, m)
            /\ \A i \in 1 .. len - 1 : final_results[i][2] <= final_results[i + 1][2]
            /\ \E pick \in [1 .. len -> 1 .. m] :
                /\ \A i, j \in 1 .. len : i # j => pick[i] # pick[j]
                /\ \A i \in 1 .. len :
                    final_results[i] =
                        << sorted_index_to_original_point_id[cands[pick[i]][1]],
                           cands[pick[i]][2] >>
                /\ \A j \in 1 .. m :
                    (\A i \in 1 .. len : pick[i] # j) =>
                        \A i \in 1 .. len : ~(cands[j][2] < final_results[i][2])

\* two candidates at different distances, the farther one returned first by
\* no bucket, and only one asked for
C8_Witness ==
    /\ Queried
    /\ qp.k = 1
    /\ Len(flatten(results)) = 2
    /\ flatten(results)[1][2] < flatten(results)[2][2]
    /\ Len(final_results) = 1

\* C9: once the sort phase of the constructor is done, the stored filter array
\* is non-decreasing, the decoding is a bijection onto 0 .. N-1, and the stored
\* filter value and vector of sorted id i are those of input point decoding[i].
C9_SortAndDecoding ==
    pc # "start" =>
        /\ DOMAIN filter_values = 0 .. n - 1
        /\ DOMAIN sorted_index_to_original_point_id = 0 .. n - 1
        /\ DOMAIN points = 0 .. n * d - 1
        /\ \A i \in 0 .. n - 2 : filter_values[i] <= filter_values[i + 1]
        /\ { sorted_index_to_original_point_id[i] : i \in 0 .. n - 1 } = 0 .. n - 1
        /\ \A i \in 0 .. n - 1 :
            /\ filter_values[i] = filters[sorted_index_to_original_point_id[i]]
            /\ \A dim \in 0 .. d - 1 :
                points[i * d + dim] =
                    data[sorted_index_to_original_point_id[i] * d + dim]

\* a finished index whose sort moved points, with vectors of two scalars
C9_Witness ==
    /\ pc = "built"
    /\ n = MaxN
    /\ d = 2
    /\ \E i \in 0 .. n - 1 : sorted_index_to_original_point_id[i] # i

RECURSIVE Power(_, _)
Power(base, exp) == IF exp = 0 THEN 1 ELSE base * Power(base, exp - 1)

\* C10: in a constructed index every level's offsets start at 0, end at N and
\* never decrease, level l has split_factor^l buckets (level 0 one, [0, N)),
\* and the index of bucket (l, b) is built over exactly the sorted ids
\* off[l][b] .. off[l][b+1] - 1.
C10_Tiling ==
    pc \in {"built", "queried"} =>
        /\ Len(spatial_indices) = NumLevels
        /\ \A l \in 0 .. NumLevels - 1 :
            LET buckets == Power(split_factor, l)
            IN  /\ DOMAIN Off(l) = 0 .. buckets
                /\ DOMAIN spatial_indices[l + 1] = 0 .. buckets - 1
                /\ Off(l)[0] = 0
                /\ Off(l)[buckets] = n
                /\ \A b \in 0 .. buckets - 1 :
                    /\ Off(l)[b] <= Off(l)[b + 1]
                    /\ Idx(l, b) # NullIndex
                    /\ IndexIds(Idx(l, b)) = Off(l)[b] .. Off(l)[b + 1] - 1

\* a finished index of three levels over a corpus that does not split evenly
C10_Witness ==
    pc = "built" /\ NumLevels = 3 /\ n = 3 /\ split_factor = 2

\* the size of bucket b of level l
BucketSize(l, b) == Off(l)[b + 1] - Off(l)[b]

\* C11: with cutoff >= 1 and split_factor >= 2 a constructed layout has no
\* zero-sized bucket: off[l][b] < off[l][b+1] for every level l and bucket b.
C11_NoEmptyBuckets ==
    (pc \in {"built", "queried"} /\ cutoff >= 1 /\ split_factor >= 2) =>
        \A l \in 0 .. NumLevels - 1 :
            \A b \in Buckets(l) : Off(l)[b] < Off(l)[b + 1]

\* the size of child i of bucket b of level l, a bucket of level l + 1
ChildSize(l, b, i) == BucketSize(l + 1, b * split_factor + i)

\* ceil(S / sf) in the integers
CeilDiv(S, sf) == (S + sf - 1) \div sf

\* C12: the children b*sf .. (b+1)*sf-1 of bucket b of a non-deepest level l
\* are contiguous, start at off[l][b] and end at off[l][b+1]; their sizes
\* differ by at most one and the larger ones, of size ceil(S/sf), come first.
C12_SplitRule ==
    pc # "start" =>
        \A l \in 0 .. NumLevels - 2 : \A b \in Buckets(l) :
            /\ Off(l + 1)[b * split_factor] = Off(l)[b]
            /\ Off(l + 1)[(b + 1) * split_factor] = Off(l)[b + 1]
            /\ \A i \in 0 .. split_factor - 1 : ChildSize(l, b, i) >= 0
            /\ ChildSize(l, b, 0) = CeilDiv(BucketSize(l, b), split_factor)
            /\ \A i, j \in 0 .. split_factor - 1 :
                 i < j => /\ ChildSize(l, b, i) >= ChildSize(l, b, j)
                          /\ ChildSize(l, b, i) - ChildSize(l, b, j) <= 1

\* a parent larger than split_factor and not a multiple of it has been split
\* into larger and smaller children
C12_Witness ==
    /\ pc = "built"
    /\ NumLevels >= 2
    /\ \E l \in 0 .. NumLevels - 2 : \E b \in Buckets(l) :
         /\ BucketSize(l, b) % split_factor # 0
         /\ BucketSize(l, b) > split_factor
         /\ split_factor >= 2

\* some bucket of level l holds more than cutoff points
ExceedsCutoff(l) == \E b \in Buckets(l) : BucketSize(l, b) > cutoff

\* C13: the loop condition, which reads only the first bucket of the deepest
\* level, is true exactly when the largest bucket of that level exceeds
\* cutoff (cutoff >= 1); so when construction ends every bucket of the deepest
\* level holds at most cutoff points and every other level has a bucket of
\* more than cutoff points; N <= cutoff gives one level of one bucket, and
\* N = 8, cutoff = 2, split_factor = 2 gives [0,8], [0,4,8], [0,2,4,6,8].
C13_StopRule ==
    cutoff >= 1 =>
        /\ pc = "building" => (LoopCondition <=> ExceedsCutoff(NumLevels - 1))
        /\ pc = "built" =>
            /\ ~ExceedsCutoff(NumLevels - 1)
            /\ \A l \in 0 .. NumLevels - 2 : ExceedsCutoff(l)
            /\ n <= cutoff => NumLevels = 1 /\ NumBuckets(0) = 1
            /\ (n = 8 /\ cutoff = 2 /\ split_factor = 2) =>
                 bucket_offsets = << [b \in 0 .. 1 |-> 8 * b],
                                     [b \in 0 .. 2 |-> 4 * b],
                                     [b \in 0 .. 4 |-> 2 * b] >>

\* the constructor has returned on the 8 points of the example
C13_Witness ==
    /\ pc = "built"
    /\ n = 8 /\ cutoff = 2 /\ split_factor = 2
    /\ NumLevels = 3

\* C14: for N >= 1, cutoff >= 1 and split_factor >= 1 the level loop
\* terminates.  The loop condition reads only the size of the first bucket of
\* the deepest level, and an iteration computes the next such size from this
\* one alone, so the loop ends if and only if every iteration makes the first
\* bucket strictly smaller: an iteration that leaves it as it was repeats
\* forever.
C14_LevelLoopTerminates ==
    [][(/\ pc = "building"
        /\ cutoff >= 1 /\ split_factor >= 1
        /\ Len(bucket_offsets') = Len(bucket_offsets) + 1)
       => bucket_offsets'[Len(bucket_offsets) + 1][1]
            < bucket_offsets[Len(bucket_offsets)][1]]_vars

\* the tasks of the last level loop iteration that wrote slot j
Writers(j) == { t \in tasks_run : t.slot = j }

\* C15: in the nested parallel loops that built the deepest level from the M
\* buckets of the level above, every slot 0 .. M*sf-1 of the new offset and
\* index arrays was written by exactly one task and the final offset slot
\* M*sf by none (no task wrote outside 0 .. M*sf-1), whatever the parents'
\* sizes; so the new offsets are what the tasks computed, the same under
\* every interleaving: each slot holds its one writer's start, the final
\* slot holds N.
C15_OneWriterPerSlot ==
    (pc # "start" /\ NumLevels >= 2) =>
        LET slots == NumBuckets(NumLevels - 2) * split_factor
        IN  /\ \A j \in 0 .. slots - 1 : Cardinality(Writers(j)) = 1
            /\ \A t \in tasks_run : t.slot \in 0 .. slots - 1
            /\ \A t \in tasks_run :
                 /\ Off(NumLevels - 1)[t.slot] = t.start
                 /\ Idx(NumLevels - 1, t.slot) = create_index(t.start, t.end)
            /\ Off(NumLevels - 1)[slots] = n

\* a level has been built from parents among which one is empty (where
\* small_bucket_size wraps) and one is non-empty but smaller than split_factor
C15_Witness ==
    /\ pc = "building"
    /\ NumLevels >= 3
    /\ \E b \in Buckets(NumLevels - 2) : BucketSize(NumLevels - 2, b) = 0
    /\ \E b \in Buckets(NumLevels - 2) :
         /\ BucketSize(NumLevels - 2, b) > 0
         /\ BucketSize(NumLevels - 2, b) < split_factor
    /\ tasks_run # {}

\* C16: every returned pair is a candidate (local_id, dist) of a searched
\* bucket b of the chosen level l that carries the original id
\* decoding[off[l][b] + local_id] and the candidate's distance, each entry a
\* candidate of its own; candidates with different sorted ids get different
\* original ids, so the returned ids are pairwise different.
C16_IdMapping ==
    Queried =>
        LET len == Len(final_results)
            cands == CandidateIds
        IN  /\ \E pick \in [1 .. len -> cands] :
                /\ \A x, y \in 1 .. len : x # y => pick[x] # pick[y]
                /\ \A x \in 1 .. len :
                    final_results[x] =
                        << sorted_index_to_original_point_id[pick[x][3]],
                           results[pick[x][1]][pick[x][2]][2] >>
            /\ \A c1, c2 \in cands :
                c1[3] # c2[3] =>
                    sorted_index_to_original_point_id[c1[3]]
                        # sorted_index_to_original_point_id[c2[3]]
            /\ \A x, y \in 1 .. len :
                x # y => final_results[x][1] # final_results[y][1]

\* a query returned two candidates, under original ids that are not their
\* local ids
C16_Witness ==
    /\ Queried
    /\ Len(final_results) = 2
    /\ final_results[1][1] # merged[1][1]
    /\ final_results[2][1] # merged[2][1]

\* C17: for every query that passes the empty check the level walk stops in
\* its first iteration with level = 0, start_bucket = 0, end_bucket = 1: one
\* beam search runs, on the root index over all N points, no bucket of a
\* level >= 1 is searched, and the result is the first min(k, m) of the
\* root's m candidates in order of distance, decoded, whatever lo and hi are.
C17_RootOnly ==
    Searched =>
        /\ level = 0 /\ start_bucket = 0 /\ end_bucket = 1
        /\ searched = { <<0, 0>> }
        /\ Idx(0, 0) = create_index(0, n)
        /\ Len(results) = 1
        /\ Len(results[1]) <= Min(qp.beamSize, n)
        /\ \A i \in 1 .. Len(results[1]) :
            /\ results[1][i][1] \in 0 .. n - 1
            /\ results[1][i][2] = Dist(query, results[1][i][1], d)
        /\ Len(final_results) = Min(qp.k, Len(results[1]))
        /\ \A i \in 1 .. Len(final_results) :
            /\ final_results[i][2] = results[1][i][2]
            /\ \E j \in 1 .. Len(results[1]) :
                final_results[i] =
                    << sorted_index_to_original_point_id[results[1][j][1]],
                       results[1][j][2] >>

\* a query whose index range is a proper part of a corpus with deeper levels
\* has returned a result
C17_Witness ==
    /\ Searched
    /\ NumLevels >= 2
    /\ start > 0
    /\ end - start <= Off(1)[1]
    /\ Len(final_results) >= 1

\* C18: in every driver, whenever main returns after a monitor thread was
\* started (error returns included), done has been set and the thread has
\* been joined, so no joinable std::thread is destroyed.
C18_MonitorJoinedBeforeReturn ==
    /\ (outcome = "returning" /\ monitor_pc # "none") =>
            done /\ monitor_pc = "joined"
    /\ outcome # "joinable_destroyed"
=============================================================================
